---- MODULE Spec2Model ----
(***************************************************************************)
(* State-machine model of the cryptocadet Shopify integration.             *)
(*                                                                         *)
(*   Spec     the Express server, in its two revisions:                    *)
(*              rev = "server"  is src/server.js                           *)
(*              rev = "legacy"  is the server of                           *)
(*                              src/extensions/checkout-extension.js       *)
(*            One action per route handler; a handler runs to completion   *)
(*            (requests do not overlap in this specification).             *)
(*   SpecDom  the browser scripts that insert the "Pay with Crypto"        *)
(*            button, one task of the browser event loop per action.       *)
(*   SpecWebhook, SpecLegacy, SpecOAuth                                    *)
(*            the webhook routes, the older revision's activation and      *)
(*            served script, and the /install and /auth routes.            *)
(*   SpecConfig, SpecStore                                                 *)
(*            the storage functions, call after call and with calls that   *)
(*            overlap at their awaits.                                     *)
(*   SpecPayments, SpecInstalled                                           *)
(*            the payment routes with the server's clock, and the webhook  *)
(*            routes at a server whose stores hold a shop.                 *)
(*   SpecReload, SpecAdmin                                                 *)
(*            a page that runs the served script more than once, and the   *)
(*            admin page's Activate button.                                *)
(*                                                                         *)
(* Timestamps (created_at, updated_at, activated_at) are not modelled: no  *)
(* handler reads them back.  fs.writeFile is taken to succeed.             *)
(***************************************************************************)
EXTENDS Integers, Sequences, FiniteSets, TLC

VARIABLES
    rev,         \* which server revision is running
    secret,      \* process.env.SHOPIFY_WEBHOOK_SECRET (0 = not set)
    tokenFile,   \* shop-tokens.json
    configFile,  \* merchant-configs.json
    usedCodes,   \* platform: authorization codes already exchanged
    nextTagId,   \* platform: id of the next script tag it creates
    req,         \* the request handled last
    resp,        \* the response it was given
    before,      \* the access token stored for the request's shop before it
    writes,      \* files written while handling it
    calls,       \* platform endpoints called while handling it
    activated,   \* history: per shop, script_tag_id of the last activation
                 \* that responded success (0 = none)
    script,      \* which client script runs in the page
    onCheckout,  \* window.location names a checkout page
    present,     \* element kinds currently in the document
    buttons,     \* per place, how many #crypto-pay-btn elements are there
    timers,      \* delays of the script's fixed retry timers not fired yet
    timeouts,    \* addCryptoButton timeouts scheduled by the observer
    records,     \* MutationObserver records queued for the next callback
    started,     \* the script's top-level code has run
    listening,   \* a DOMContentLoaded listener is registered and not yet run
    observing,   \* the MutationObserver is registered on document.body
    inserted,    \* history: how many buttons the script has inserted
    executions,  \* how many times the script's top-level code has run
    marked,      \* the element with id crypto-pay-button-script is in
                 \* document.head
    issued,      \* history: the state nonces GET /auth has sent out, per shop
    inflight,    \* calls of the storage functions in progress
    now,         \* Date.now() of the server's clock
    payReq,      \* the /payments request handled last
    payResp,     \* the response it was given
    sessionLog,  \* history: the session ids the /payments/sessions
                 \* responses have issued, in order
    rejected,    \* history: the session ids /payments/reject has reported
                 \* rejected
    statusDiv,   \* admin page: what #activation-status shows
    fetches,     \* admin page: the clicks whose fetch has not settled
    clicks,      \* admin page: clicks on #activate-btn so far
    settled      \* admin page: the click and outcome of the fetch that
                 \* settled last

serverVars == <<rev, secret, tokenFile, configFile, usedCodes, nextTagId,
                req, resp, before, writes, calls, activated>>
domVars == <<script, onCheckout, present, buttons, timers, timeouts, records,
             started, listening, observing, inserted, executions, marked>>
payVars == <<now, payReq, payResp, sessionLog, rejected>>
adminVars == <<statusDiv, fetches, clicks, settled>>
sideVars == <<issued, inflight, payVars, adminVars>>
vars == <<serverVars, domVars, sideVars>>

-----------------------------------------------------------------------------
(* Bounds                                                                  *)

MaxShops == 2
MaxCodes == 2
MaxTokens == 2
MaxTags == 2
MaxBody == 2

Shops == 1..MaxShops
Codes == 1..MaxCodes
Tokens == 1..MaxTokens
Bodies == 0..MaxBody       \* raw request bodies; body 0 is not valid JSON
Secrets == 1..2
Missing == 0               \* an absent query parameter, header or field

-----------------------------------------------------------------------------
(* Storage functions                                                       *)

Fields == {"shop", "script_tag_id", "payment_method_active", "customization_id"}

NoEntry == [present |-> FALSE, access_token |-> Missing]
NoConfig == [present |-> FALSE, fields |-> [f \in Fields |-> Missing]]
EmptyTokens == [s \in Shops |-> NoEntry]
EmptyConfigs == [s \in Shops |-> NoConfig]
NoTokenFile == [state |-> "ENOENT", tokens |-> EmptyTokens]
NoConfigFile == [state |-> "ENOENT", configs |-> EmptyConfigs]

\* await fs.readFile(path); JSON.parse(data) inside try { } catch (_) {}:
\* a file that cannot be read or parsed leaves the empty object.
ReadTokens(file) == IF file.state = "ok" THEN file.tokens ELSE EmptyTokens
ReadConfigs(file) == IF file.state = "ok" THEN file.configs ELSE EmptyConfigs

\* mutant: an entry already stored for the shop is kept
StoreShopToken_KeepFirst(file, shop, accessToken) ==
    [file EXCEPT !.state = "ok",
                 !.tokens = [ReadTokens(file) EXCEPT ![shop] =
                     IF @.present THEN @
                     ELSE [present |-> TRUE, access_token |-> accessToken]]]

\* tokens[shop] = { access_token, shop, created_at }, then the file is
\* rewritten.  JSON.stringify drops an undefined access_token, which reads
\* back as a record without the field (Missing).
StoreShopToken(file, shop, accessToken) ==
    [file EXCEPT !.state = "ok",
                 !.tokens = [ReadTokens(file) EXCEPT ![shop] =
                     [present |-> TRUE, access_token |-> accessToken]]]

\* tokens[shop]?.access_token || null, null on any read error
GetShopAccessToken(file, shop) ==
    IF file.state # "ok" THEN Missing
    ELSE IF ~file.tokens[shop].present THEN Missing
    ELSE file.tokens[shop].access_token

\* mutant: the spreads swapped, { ...config, ...configs[shop], shop }
StoreMerchantConfig_OldWins(file, shop, config) ==
    LET configs == ReadConfigs(file)
        merged == [f \in Fields |->
                     IF f = "shop" THEN shop
                     ELSE IF configs[shop].present /\ configs[shop].fields[f] # Missing
                     THEN configs[shop].fields[f]
                     ELSE IF f \in DOMAIN config THEN config[f]
                     ELSE Missing]
    IN [file EXCEPT !.state = "ok",
                    !.configs = [configs EXCEPT ![shop] =
                        [present |-> TRUE, fields |-> merged]]]

\* mutant: the object written holds the shop's record alone
StoreMerchantConfig_Alone(file, shop, config) ==
    LET configs == ReadConfigs(file)
        merged == [f \in Fields |->
                     IF f = "shop" THEN shop
                     ELSE IF f \in DOMAIN config THEN config[f]
                     ELSE configs[shop].fields[f]]
    IN [file EXCEPT !.state = "ok",
                    !.configs = [EmptyConfigs EXCEPT ![shop] =
                        [present |-> TRUE, fields |-> merged]]]

\* configs[shop] = { ...configs[shop], ...config, shop, updated_at }:
\* config is a function from the keys it carries to their values.
StoreMerchantConfig(file, shop, config) ==
    LET configs == ReadConfigs(file)
        merged == [f \in Fields |->
                     IF f = "shop" THEN shop
                     ELSE IF f \in DOMAIN config THEN config[f]
                     ELSE configs[shop].fields[f]]
    IN [file EXCEPT !.state = "ok",
                    !.configs = [configs EXCEPT ![shop] =
                        [present |-> TRUE, fields |-> merged]]]

\* configs[shop] || null, null on any read error
GetMerchantConfig(file, shop) ==
    IF file.state # "ok" THEN NoConfig ELSE file.configs[shop]

-----------------------------------------------------------------------------
(* The storage functions step by step: each awaits fs.readFile, then       *)
(* fs.writeFile, and other requests run while it waits                     *)

MaxRequests == 2
Requests == 1..MaxRequests

IdleCall == [pc |-> "idle", store |-> "none", shop |-> Missing, value |-> Missing,
             tokens |-> NoTokenFile, configs |-> NoConfigFile]

\* a handler reaches await storeShopToken(shop, access_token) or
\* await storeMerchantConfig(shop, { script_tag_id, ... })
StoreCall(p) ==
    /\ inflight[p].pc = "idle"
    /\ \E st \in {"tokens", "configs"}, s \in Shops, v \in Tokens :
        inflight' = [inflight EXCEPT ![p] =
            [IdleCall EXCEPT !.pc = "reading", !.store = st, !.shop = s, !.value = v]]
    /\ UNCHANGED <<tokenFile, configFile>>

\* data = await fs.readFile(...): the file as it is now
ReadFile(p) ==
    /\ inflight[p].pc = "reading"
    /\ inflight' = [inflight EXCEPT ![p] =
            [@ EXCEPT !.pc = "writing", !.tokens = tokenFile, !.configs = configFile]]
    /\ UNCHANGED <<tokenFile, configFile>>

\* await fs.writeFile(...): what was read, with the shop's record replaced
WriteFile(p) ==
    /\ inflight[p].pc = "writing"
    /\ inflight' = [inflight EXCEPT ![p] = [@ EXCEPT !.pc = "done"]]
    /\ IF inflight[p].store = "tokens"
       THEN /\ tokenFile' = StoreShopToken(inflight[p].tokens, inflight[p].shop,
                                           inflight[p].value)
            /\ UNCHANGED configFile
       ELSE /\ configFile' = StoreMerchantConfig(inflight[p].configs, inflight[p].shop,
                                 [f \in {"script_tag_id"} |-> inflight[p].value])
            /\ UNCHANGED tokenFile

storeFrame == <<rev, secret, usedCodes, nextTagId, req, resp, before, writes,
                calls, activated, domVars, issued, payVars, adminVars>>

NextStore ==
    \/ \E p \in Requests : StoreCall(p) /\ UNCHANGED storeFrame
    \/ \E p \in Requests : ReadFile(p) /\ UNCHANGED storeFrame
    \/ \E p \in Requests : WriteFile(p) /\ UNCHANGED storeFrame

-----------------------------------------------------------------------------
(* Requests and responses                                                  *)

NoReferer == <<"none", Missing>>
NoReq == [route |-> "none", shop |-> Missing, code |-> Missing,
          ctype |-> "none", body |-> 0, hmac |-> Missing,
          platform |-> "none", token |-> Missing,
          state |-> Missing, custom |-> "none", referer |-> NoReferer]
NoResp == [status |-> 0, text |-> "none", location |-> <<>>,
           script_tag_id |-> Missing, success |-> FALSE, enabled |-> "none"]

Reply(status, text) == [NoResp EXCEPT !.status = status, !.text = text]
Redirect(url) == [NoResp EXCEPT !.status = 302, !.location = url]

\* app.use((err, req, res, next) => res.status(500).json(...)): where an
\* error thrown by a middleware or by a synchronous handler ends up
ErrorHandler == Reply(500, "Internal error")

-----------------------------------------------------------------------------
(* Webhooks                                                                *)

WebhookRoutes(r) ==
    IF r = "server"
    THEN {"/webhooks/orders/create", "/webhooks/orders/paid",
          "/webhooks/orders/cancelled", "/webhooks/app/uninstalled"}
    ELSE {"/webhooks/orders/create", "/webhooks/app/uninstalled"}

ContentTypes == {"application/json", "text/plain", "none"}

\* crypto.createHmac('sha256', key).update(data).digest('base64'): a keyed
\* digest, one-to-one on the keys and bodies of the model
Hmac(key, data) == 1 + (key - 1) * (MaxBody + 1) + data
Sigs == 1..(2 * (MaxBody + 1) + 1)

\* JSON.parse in the strict mode of express.json
IsJson(body) == body # 0

\* app.use(express.json({ limit: '1mb' })): the global parser.  It takes a
\* request whose Content-Type is application/json, replaces req.body by the
\* parsed object and marks the request as parsed (_body); a body that does
\* not parse is an error handed to the error handler.  Any other request
\* passes with req.body = {}.
ExpressJson(r) ==
    IF r.ctype = "application/json"
    THEN IF IsJson(r.body)
         THEN [error |-> FALSE, parsed |-> TRUE, kind |-> "object", data |-> r.body]
         ELSE [error |-> TRUE, parsed |-> FALSE, kind |-> "object", data |-> 0]
    ELSE [error |-> FALSE, parsed |-> FALSE, kind |-> "object", data |-> 0]

\* express.raw({ type: 'application/json' }) on the route: a request that a
\* parser has already taken passes untouched; otherwise a request of type
\* application/json gets its raw bytes as a Buffer.
ExpressRaw(r, b) ==
    IF b.parsed THEN b
    ELSE IF r.ctype = "application/json"
    THEN [error |-> FALSE, parsed |-> TRUE, kind |-> "buffer", data |-> r.body]
    ELSE b

\* verifyShopifyWebhook(data, hmacHeader): createHmac throws without a key,
\* update throws on anything that is not a string or a Buffer.
VerifyShopifyWebhook(b, hmacHeader) ==
    IF secret = Missing \/ b.kind # "buffer" THEN "throws"
    ELSE IF Hmac(secret, b.data) = hmacHeader THEN "valid"
    ELSE "invalid"

\* the middleware chain of a POST /webhooks/... request, to its response
WebhookLegacy(r) ==
    LET j == ExpressJson(r)
        b == ExpressRaw(r, j)
        v == VerifyShopifyWebhook(b, r.hmac)
    IN IF j.error THEN ErrorHandler
       ELSE IF v = "throws" THEN ErrorHandler
       ELSE IF v = "invalid" THEN Reply(401, "Unauthorized")
       ELSE Reply(200, "OK")

WebhookServer(r) ==
    LET j == ExpressJson(r)
    IN IF j.error THEN ErrorHandler ELSE Reply(200, "OK")

-----------------------------------------------------------------------------
(* The platform, as the server sees it through fetch                       *)

\* what POST https://{shop}/admin/oauth/access_token can come back with:
\* an OK response with or without access_token or with a body that is not
\* JSON, a non-OK response (JSON or not), or no response at all
ExchangeOutcomes == {"ok_token", "ok_no_token", "ok_not_json",
                     "rejected_json", "rejected_not_json", "network_error"}
ExchangeOk == {"ok_token", "ok_no_token", "ok_not_json"}

\* what the scriptTagCreate mutation can come back with
GraphqlOutcomes == {"created", "user_errors", "graphql_errors", "not_json",
                    "network_error"}

\* https://${shop}/admin/apps/${SHOPIFY_API_KEY}
AdminApp(shop) == <<"https://", shop, "/admin/apps/", "SHOPIFY_API_KEY">>

-----------------------------------------------------------------------------
(* GET /auth/callback                                                      *)

Outcome(r, store, token, call) ==
    [resp |-> r, store |-> store, token |-> token, call |-> call]

\* src/server.js
AuthCallbackServer(r) ==
    IF r.shop = Missing \/ r.code = Missing
    THEN Outcome(Reply(400, "Missing shop or code parameter"), FALSE, Missing, FALSE)
    ELSE IF r.platform = "network_error"
    THEN Outcome(Reply(500, "OAuth error"), FALSE, Missing, TRUE)
    ELSE IF r.platform \in {"ok_not_json", "rejected_not_json"}
    THEN Outcome(Reply(500, "OAuth error"), FALSE, Missing, TRUE)
    ELSE IF r.platform \notin ExchangeOk
    THEN Outcome(Reply(400, "OAuth failed"), FALSE, Missing, TRUE)
    ELSE IF r.token = Missing
    THEN Outcome(Reply(400, "No access token received"), FALSE, Missing, TRUE)
    ELSE Outcome(Redirect(AdminApp(r.shop)), TRUE, r.token, TRUE)

\* mutant: the check of tokenResponse.ok left out
AuthCallbackLegacy_NoOkCheck(r) ==
    IF r.shop = Missing \/ r.code = Missing
    THEN Outcome(Reply(400, "Missing required OAuth parameters"), FALSE, Missing, FALSE)
    ELSE IF r.platform = "network_error"
    THEN Outcome(Reply(500, "OAuth failed"), FALSE, Missing, TRUE)
    ELSE IF r.platform \in {"ok_not_json", "rejected_not_json"}
    THEN Outcome(Reply(500, "OAuth failed"), FALSE, Missing, TRUE)
    ELSE Outcome(Redirect(AdminApp(r.shop)), TRUE, r.token, TRUE)

\* src/extensions/checkout-extension.js
AuthCallbackLegacy(r) ==
    IF r.shop = Missing \/ r.code = Missing
    THEN Outcome(Reply(400, "Missing required OAuth parameters"), FALSE, Missing, FALSE)
    ELSE IF r.platform = "network_error"
    THEN Outcome(Reply(500, "OAuth failed"), FALSE, Missing, TRUE)
    ELSE IF r.platform \notin ExchangeOk
    THEN Outcome(Reply(500, "OAuth failed"), FALSE, Missing, TRUE)
    ELSE IF r.platform = "ok_not_json"
    THEN Outcome(Reply(500, "OAuth failed"), FALSE, Missing, TRUE)
    ELSE Outcome(Redirect(AdminApp(r.shop)), TRUE, r.token, TRUE)

CallbackRequest(shop, code, platform, token) ==
    [NoReq EXCEPT !.route = "/auth/callback", !.shop = shop, !.code = code,
                  !.platform = platform, !.token = token]

\* the platform issues its authorization codes in order: the codes a request
\* can carry are those already exchanged and the next one
FreshCodes ==
    IF Cardinality(usedCodes) < MaxCodes THEN {Cardinality(usedCodes) + 1} ELSE {}

\* the requests of a callback with what the platform answers to each: no
\* exchange is sent without shop and code, and the platform accepts a code
\* once, so the exchange of a code it has seen is rejected (or does not get
\* through)
CallbackRequests ==
    LET codes == usedCodes \cup FreshCodes
    IN {CallbackRequest(s, c, "none", Missing) :
           <<s, c>> \in ((Shops \cup {Missing}) \X (codes \cup {Missing}))
                          \ (Shops \X codes)}
       \cup {CallbackRequest(s, c, p, Missing) :
                s \in Shops, c \in codes, p \in ExchangeOutcomes \ ExchangeOk}
       \cup {CallbackRequest(s, c, p, Missing) :
                s \in Shops, c \in FreshCodes, p \in ExchangeOk \ {"ok_token"}}
       \cup {CallbackRequest(s, c, "ok_token", t) :
                s \in Shops, c \in FreshCodes, t \in Tokens}

AuthCallbackStep(r, o) ==
    /\ req' = r
    /\ before' = IF r.shop = Missing THEN Missing
                 ELSE GetShopAccessToken(tokenFile, r.shop)
    /\ resp' = o.resp
    /\ tokenFile' = IF o.store THEN StoreShopToken(tokenFile, r.shop, o.token)
                    ELSE tokenFile
    /\ writes' = IF o.store THEN {"shop-tokens.json"} ELSE {}
    /\ calls' = IF o.call THEN {"oauth/access_token"} ELSE {}
    /\ usedCodes' = IF o.call /\ r.platform \in ExchangeOk
                    THEN usedCodes \cup {r.code} ELSE usedCodes
    /\ UNCHANGED <<rev, secret, configFile, nextTagId, activated>>

AuthCallbackServerRoute ==
    /\ rev = "server"
    /\ \E r \in CallbackRequests : AuthCallbackStep(r, AuthCallbackServer(r))

AuthCallbackLegacyRoute ==
    /\ rev = "legacy"
    /\ \E r \in CallbackRequests : AuthCallbackStep(r, AuthCallbackLegacy(r))

-----------------------------------------------------------------------------
(* GET /install and GET /auth                                              *)

MaxNonces == 2

\* res.redirect(`/auth?shop=${shop}`), the same in both revisions
Install(r) ==
    IF r.shop = Missing THEN Reply(400, "Missing shop parameter")
    ELSE Redirect(<<"/auth?shop=", r.shop>>)

\* src/server.js: the authorization URL carries no state
AuthServer(r) ==
    IF r.shop = Missing THEN Reply(400, "Missing shop parameter")
    ELSE Redirect(<<"https://", r.shop, "/admin/oauth/authorize">>)

\* src/extensions/checkout-extension.js: no check of shop; with a code the
\* request is passed on to the callback, without one the authorization URL
\* carries a fresh nonce as state.  An absent shop prints as "undefined".
AuthLegacy(r, nonce) ==
    IF r.code # Missing
    THEN Redirect(<<"/auth/callback?shop=", r.shop, "&code=", r.code>>)
    ELSE Redirect(<<"https://", r.shop, "/admin/oauth/authorize", "&state=", nonce>>)

EntryStep(r, response) ==
    /\ req' = r
    /\ resp' = response
    /\ before' = Missing
    /\ writes' = {}
    /\ calls' = {}
    /\ UNCHANGED <<rev, secret, tokenFile, configFile, usedCodes, nextTagId,
                   activated>>

InstallRoute ==
    /\ \E s \in Shops \cup {Missing} :
        LET r == [NoReq EXCEPT !.route = "/install", !.shop = s]
        IN EntryStep(r, Install(r))
    /\ UNCHANGED issued

AuthServerRoute ==
    /\ rev = "server"
    /\ \E s \in Shops \cup {Missing} :
        LET r == [NoReq EXCEPT !.route = "/auth", !.shop = s]
        IN EntryStep(r, AuthServer(r))
    /\ UNCHANGED issued

\* crypto.randomBytes(16).toString('hex'): a nonce not sent out before; the
\* handler keeps no record of it, issued is the history of what it sent
AuthLegacyRoute ==
    /\ rev = "legacy"
    /\ \E s \in Shops \cup {Missing}, c \in Codes \cup {Missing} :
        LET r == [NoReq EXCEPT !.route = "/auth", !.shop = s, !.code = c]
            nonce == Cardinality(issued) + 1
        IN /\ c = Missing => nonce <= MaxNonces
           /\ EntryStep(r, AuthLegacy(r, nonce))
           /\ issued' = IF c = Missing THEN issued \cup {<<s, nonce>>} ELSE issued

\* the state parameter a callback request can carry
States == {Missing} \cup (1..MaxNonces)

AuthCallbackServerWithState ==
    /\ rev = "server"
    /\ \E r \in CallbackRequests, st \in States :
        AuthCallbackStep([r EXCEPT !.state = st], AuthCallbackServer(r))
    /\ UNCHANGED issued

AuthCallbackLegacyWithState ==
    /\ rev = "legacy"
    /\ \E r \in CallbackRequests, st \in States :
        AuthCallbackStep([r EXCEPT !.state = st], AuthCallbackLegacy(r))
    /\ UNCHANGED issued

-----------------------------------------------------------------------------
(* POST /activate-payment-method and GET /merchant-config/:shop, server.js *)

\* mutant: the catch returns null instead of throwing again
CreateScriptTag_Swallows(file, shop, platform, id) == "created"

\* createScriptTag(shop), through makeShopifyRequest: the id of the script
\* tag created, or "throws" (no token, fetch or json() rejects, GraphQL
\* errors, non-empty userErrors)
CreateScriptTag(file, shop, platform, id) ==
    IF GetShopAccessToken(file, shop) = Missing THEN "throws"
    ELSE IF platform = "created" THEN "created"
    ELSE "throws"

\* mutant: the handler's own access token check left out
ActivateServer_NoTokenCheck(r, id) ==
    IF r.shop = Missing
    THEN Outcome(Reply(400, "Shop required"), FALSE, Missing, FALSE)
    ELSE IF CreateScriptTag(tokenFile, r.shop, r.platform, id) = "throws"
    THEN Outcome(Reply(500, "Activation failed"), FALSE, Missing, TRUE)
    ELSE Outcome([NoResp EXCEPT !.status = 200, !.text = "json",
                                !.success = TRUE, !.script_tag_id = id],
                 TRUE, id, TRUE)

\* src/server.js
ActivateServer(r, id) ==
    IF r.shop = Missing
    THEN Outcome(Reply(400, "Shop required"), FALSE, Missing, FALSE)
    ELSE IF GetShopAccessToken(tokenFile, r.shop) = Missing
    THEN Outcome(Reply(401, "No access token found"), FALSE, Missing, FALSE)
    ELSE IF CreateScriptTag(tokenFile, r.shop, r.platform, id) = "throws"
    THEN Outcome(Reply(500, "Activation failed"), FALSE, Missing, TRUE)
    ELSE Outcome([NoResp EXCEPT !.status = 200, !.text = "json",
                                !.success = TRUE, !.script_tag_id = id],
                 TRUE, id, TRUE)

ActivateRequest(shop, platform) ==
    [NoReq EXCEPT !.route = "/activate-payment-method", !.shop = shop,
                  !.platform = platform]

\* the requests of an activation with what the platform answers to each: the
\* mutation is sent only for a shop with a stored token
ActivateRequests ==
    LET known == {s \in Shops : GetShopAccessToken(tokenFile, s) # Missing}
    IN {ActivateRequest(s, "none") : s \in (Shops \cup {Missing}) \ known}
       \cup {ActivateRequest(s, p) : s \in known, p \in GraphqlOutcomes \ {"created"}}
       \cup {ActivateRequest(s, "created") :
                s \in IF nextTagId <= MaxTags THEN known ELSE {}}

ActivateServerRoute ==
    /\ rev = "server"
    /\ \E r \in ActivateRequests :
        LET o == ActivateServer(r, nextTagId)
        IN /\ req' = r
           /\ resp' = o.resp
           /\ before' = IF r.shop = Missing THEN Missing
                        ELSE GetShopAccessToken(tokenFile, r.shop)
           /\ configFile' =
                 IF o.store
                 THEN StoreMerchantConfig(configFile, r.shop,
                                          [f \in {"script_tag_id"} |-> o.token])
                 ELSE configFile
           /\ writes' = IF o.store THEN {"merchant-configs.json"} ELSE {}
           /\ calls' = IF o.call THEN {"graphql.json"} ELSE {}
           /\ nextTagId' = IF r.platform = "created" THEN nextTagId + 1 ELSE nextTagId
           /\ activated' = IF o.resp.success
                           THEN [activated EXCEPT ![r.shop] = o.resp.script_tag_id]
                           ELSE activated
           /\ UNCHANGED <<rev, secret, tokenFile, usedCodes>>

MerchantConfigGet(file, shop) ==
    LET config == GetMerchantConfig(file, shop)
    IN IF ~config.present THEN Reply(404, "Not found")
       ELSE [NoResp EXCEPT !.status = 200, !.text = "json",
                           !.script_tag_id = config.fields["script_tag_id"]]

MerchantConfigRoute ==
    \E shop \in Shops :
        /\ req' = [NoReq EXCEPT !.route = "/merchant-config", !.shop = shop]
        /\ resp' = MerchantConfigGet(configFile, shop)
        /\ before' = GetShopAccessToken(tokenFile, shop)
        /\ writes' = {}
        /\ calls' = {}
        /\ UNCHANGED <<rev, secret, tokenFile, configFile, usedCodes, nextTagId,
                       activated>>

-----------------------------------------------------------------------------
(* POST /activate-payment-method, older revision                           *)

Active == 1                \* payment_method_active: true
PlatformCustomization == 1 \* the id paymentCustomizationCreate answered
FallbackCustomization == 2 \* gid://shopify/PaymentCustomization/${Date.now()}

\* createPaymentCustomization(shop): the id of the customization the
\* platform created, or of the fallback object its catch returns (no token,
\* fetch or json() rejecting, GraphQL errors, userErrors)
CreatePaymentCustomization(file, shop, platform) ==
    IF GetShopAccessToken(file, shop) # Missing /\ platform = "created"
    THEN PlatformCustomization
    ELSE FallbackCustomization

\* createScriptTag(shop) of the older revision: scriptTag?.id, undefined
\* when the catch returned null or the platform answered scriptTag: null
CreateScriptTagLegacy(file, shop, platform, id) ==
    IF GetShopAccessToken(file, shop) # Missing /\ platform = "created"
    THEN id
    ELSE Missing

\* what the handler stores and answers: the response, and the config it
\* hands to storeMerchantConfig (none when it answers 400)
ActivateLegacy(r, id) ==
    IF r.shop = Missing
    THEN [resp |-> Reply(400, "Shop required"), store |-> FALSE, config |-> <<>>]
    ELSE LET customization == CreatePaymentCustomization(tokenFile, r.shop, r.custom)
             tag == CreateScriptTagLegacy(tokenFile, r.shop, r.platform, id)
         IN [resp |-> [NoResp EXCEPT !.status = 200, !.text = "json",
                                     !.success = TRUE, !.script_tag_id = tag],
             store |-> TRUE,
             config |-> [f \in {"payment_method_active", "customization_id",
                                "script_tag_id"} |->
                           IF f = "payment_method_active" THEN Active
                           ELSE IF f = "customization_id" THEN customization
                           ELSE tag]]

\* the requests of an activation with what the platform answers to its two
\* mutations: nothing is sent for a shop without a stored token
ActivateLegacyRequests ==
    LET known == {s \in Shops : GetShopAccessToken(tokenFile, s) # Missing}
        tags == IF nextTagId <= MaxTags THEN GraphqlOutcomes
                ELSE GraphqlOutcomes \ {"created"}
    IN {ActivateRequest(s, "none") : s \in (Shops \cup {Missing}) \ known}
       \cup {[ActivateRequest(s, p) EXCEPT !.custom = c] :
                s \in known, p \in tags, c \in GraphqlOutcomes}

ActivateLegacyRoute ==
    /\ rev = "legacy"
    /\ \E r \in ActivateLegacyRequests :
        LET o == ActivateLegacy(r, nextTagId)
        IN /\ req' = r
           /\ resp' = o.resp
           /\ before' = IF r.shop = Missing THEN Missing
                        ELSE GetShopAccessToken(tokenFile, r.shop)
           /\ configFile' = IF o.store
                            THEN StoreMerchantConfig(configFile, r.shop, o.config)
                            ELSE configFile
           /\ writes' = IF o.store THEN {"merchant-configs.json"} ELSE {}
           /\ calls' = IF r.platform # "none" THEN {"graphql.json"} ELSE {}
           /\ nextTagId' = IF r.platform = "created" THEN nextTagId + 1 ELSE nextTagId
           /\ activated' = IF o.resp.success
                           THEN [activated EXCEPT ![r.shop] = o.resp.script_tag_id]
                           ELSE activated
           /\ UNCHANGED <<rev, secret, tokenFile, usedCodes>>

-----------------------------------------------------------------------------
(* GET /checkout-extension.js, older revision                              *)

\* the Referer header: none, a page of shop s at s.myshopify.com, or a page
\* of another site
Referers == {NoReferer, <<"other", Missing>>} \cup ({"myshopify"} \X Shops)

\* shopHeader.match(/https?:\/\/([^.]+)\.myshopify\.com/): the shop, or null
RefererShop(ref) == IF ref[1] = "myshopify" THEN ref[2] ELSE Missing

\* mutant: any record of the shop enables the script
CheckoutExtensionLegacy_AnyRecord(file, ref) ==
    LET shop == RefererShop(ref)
    IN IF shop = Missing THEN "false"
       ELSE IF ~GetMerchantConfig(file, shop).present THEN "null"
       ELSE "true"

\* isEnabled = config && config.payment_method_active, as the template
\* literal prints it after "const CRYPTO_ENABLED = "
CheckoutExtensionLegacy(file, ref) ==
    LET shop == RefererShop(ref)
        config == GetMerchantConfig(file, shop)
    IN IF shop = Missing THEN "false"
       ELSE IF ~config.present THEN "null"
       ELSE IF config.fields["payment_method_active"] = Missing THEN "undefined"
       ELSE IF config.fields["payment_method_active"] = Active THEN "true"
       ELSE "false"

\* if (!CRYPTO_ENABLED) return; for the literals the server can print
Truthy(literal) == literal = "true"

CheckoutExtensionLegacyRoute ==
    /\ rev = "legacy"
    /\ \E ref \in Referers :
        /\ req' = [NoReq EXCEPT !.route = "/checkout-extension.js", !.referer = ref]
        /\ resp' = [NoResp EXCEPT !.status = 200, !.text = "javascript",
                       !.enabled = CheckoutExtensionLegacy(configFile, ref)]
    /\ before' = Missing
    /\ writes' = {}
    /\ calls' = {}
    /\ UNCHANGED <<rev, secret, tokenFile, configFile, usedCodes, nextTagId,
                   activated>>

-----------------------------------------------------------------------------
(* POST /webhooks/...                                                      *)

WebhookRequests ==
    {[NoReq EXCEPT !.route = w, !.ctype = c, !.body = b, !.hmac = h] :
        w \in WebhookRoutes(rev), c \in ContentTypes, b \in Bodies,
        h \in Sigs \cup {Missing}}

\* mutant: the uninstall webhook clears both stores
WebhookStep_CleansUp(r, response) ==
    /\ req' = r
    /\ before' = Missing
    /\ resp' = response
    /\ writes' = {}
    /\ calls' = {}
    /\ tokenFile' = IF r.route = "/webhooks/app/uninstalled" THEN NoTokenFile
                    ELSE tokenFile
    /\ configFile' = IF r.route = "/webhooks/app/uninstalled" THEN NoConfigFile
                     ELSE configFile
    /\ UNCHANGED <<rev, secret, usedCodes, nextTagId, activated>>

WebhookStep(r, response) ==
    /\ req' = r
    /\ before' = Missing
    /\ resp' = response
    /\ writes' = {}
    /\ calls' = {}
    /\ UNCHANGED <<rev, secret, tokenFile, configFile, usedCodes, nextTagId,
                   activated>>

WebhookServerRoute ==
    /\ rev = "server"
    /\ \E r \in WebhookRequests : WebhookStep(r, WebhookServer(r))

WebhookLegacyRoute ==
    /\ rev = "legacy"
    /\ \E r \in WebhookRequests : WebhookStep(r, WebhookLegacy(r))

-----------------------------------------------------------------------------
(* POST /payments/sessions, /payments/confirm, /payments/reject            *)

MaxClock == 3       \* the clock's milliseconds are 1..MaxClock
MaxSessions == 3    \* payment sessions created in a run
MaxAmount == 1

Undefined == -1     \* a number field the JSON body does not carry
\* a body field: gid and currency are strings ("undefined" when the body does
\* not carry them), amount a number; a session id crypto_session_<t> is
\* written t
PayStrings == {"undefined", "", "x"}
PayAmounts == {Undefined} \cup 0..MaxAmount
SessionIds == {Undefined} \cup 1..MaxClock

\* !v of JavaScript
Falsy(v) == v \in {"undefined", ""}
FalsyNumber(n) == n \in {Undefined, 0}

NoBody == [route |-> "none", gid |-> "undefined", amount |-> Undefined,
           currency |-> "undefined", session_id |-> Undefined,
           transaction_id |-> Undefined]
NoPayResp == [status |-> 0, code |-> "none", success |-> FALSE,
              session_id |-> Undefined, path |-> "none", redirect |-> Undefined,
              amount |-> Undefined, currency |-> "undefined"]

\* `crypto_session_${Date.now()}`
SessionId(t) == t

\* src/server.js 706-737; req.body is an object for every request (express.json)
PaymentSessionsServer(body, t) ==
    IF Falsy(body.gid) \/ FalsyNumber(body.amount) \/ Falsy(body.currency)
    THEN [NoPayResp EXCEPT !.status = 400, !.code = "missing_required_fields"]
    ELSE [NoPayResp EXCEPT !.status = 200, !.session_id = SessionId(t),
             !.path = "/pay/", !.redirect = SessionId(t),
             !.amount = body.amount, !.currency = body.currency]

\* src/extensions/checkout-extension.js 785-833, for a body without checkout
PaymentSessionsLegacy(body, t) ==
    [NoPayResp EXCEPT !.status = 200, !.session_id = SessionId(t),
        !.path = "?session=", !.redirect = SessionId(t),
        !.amount = IF FalsyNumber(body.amount) THEN 0 ELSE body.amount,
        !.currency = IF Falsy(body.currency) THEN "USD" ELSE body.currency]

\* src/server.js 739-766
PaymentConfirmServer(body) ==
    IF \/ FalsyNumber(body.session_id) \/ FalsyNumber(body.transaction_id)
       \/ FalsyNumber(body.amount)
    THEN [NoPayResp EXCEPT !.status = 400]
    ELSE [NoPayResp EXCEPT !.status = 200, !.success = TRUE,
             !.session_id = body.session_id, !.amount = body.amount]

\* src/extensions/checkout-extension.js 893-925
PaymentConfirmLegacy(body) ==
    [NoPayResp EXCEPT !.status = 200, !.success = TRUE,
        !.session_id = body.session_id, !.amount = body.amount]

\* src/server.js 768-791
PaymentReject(body) ==
    IF FalsyNumber(body.session_id)
    THEN [NoPayResp EXCEPT !.status = 400]
    ELSE [NoPayResp EXCEPT !.status = 200, !.success = TRUE,
             !.session_id = body.session_id]

PaymentSessionsRoute ==
    /\ Len(sessionLog) < MaxSessions
    /\ \E g \in PayStrings, a \in PayAmounts, c \in PayStrings :
        LET body == [NoBody EXCEPT !.route = "/payments/sessions", !.gid = g,
                        !.amount = a, !.currency = c]
            response == IF rev = "server" THEN PaymentSessionsServer(body, now)
                        ELSE PaymentSessionsLegacy(body, now)
        IN /\ payReq' = body
           /\ payResp' = response
           /\ sessionLog' = IF response.status = 200
                            THEN Append(sessionLog, response.session_id)
                            ELSE sessionLog
    /\ UNCHANGED <<now, rejected>>

PaymentConfirmRoute ==
    /\ \E i \in SessionIds, x \in {Undefined, 1}, a \in PayAmounts :
        LET body == [NoBody EXCEPT !.route = "/payments/confirm",
                        !.session_id = i, !.transaction_id = x, !.amount = a]
        IN /\ payReq' = body
           /\ payResp' = IF rev = "server" THEN PaymentConfirmServer(body)
                         ELSE PaymentConfirmLegacy(body)
    /\ UNCHANGED <<now, sessionLog, rejected>>

\* the older revision has no /payments/reject route
PaymentRejectRoute ==
    /\ rev = "server"
    /\ \E i \in SessionIds :
        LET body == [NoBody EXCEPT !.route = "/payments/reject", !.session_id = i]
        IN /\ payReq' = body
           /\ payResp' = PaymentReject(body)
           /\ rejected' = IF payResp'.success THEN rejected \cup {i} ELSE rejected
    /\ UNCHANGED <<now, sessionLog>>

\* a millisecond passes between two requests
Tick ==
    /\ now < MaxClock
    /\ now' = now + 1
    /\ UNCHANGED <<payReq, payResp, sessionLog, rejected>>

-----------------------------------------------------------------------------
(* The admin page: the click handler of #activate-btn                      *)

MaxClicks == 3

\* what the fetch of /activate-payment-method and response.json() come to:
\* the bodies the two servers send, a body that is not JSON, a JSON null,
\* a request that fails
FetchOutcomes ==
    {"success: true", "success: false", "error", "not JSON", "null", "rejected"}

NoFetch == [click |-> 0, outcome |-> "none"]

\* mutant: the TypeError of data.success on a null body is not caught
StatusFor_Stuck(outcome) ==
    IF outcome = "null" THEN "Activating..."
    ELSE IF outcome \in {"not JSON", "rejected"} THEN "Error"
    ELSE IF outcome = "success: true" THEN "activated"
    ELSE "Failed"

\* src/unnamed/part_000 33-44 (and 85-98): what the handler writes to
\* statusDiv.innerHTML for an outcome
StatusFor(outcome) ==
    IF outcome \in {"not JSON", "null", "rejected"} THEN "Error"
    ELSE IF outcome = "success: true" THEN "activated"
    ELSE "Failed"

\* src/unnamed/part_000 24-31: up to the first await
ActivateClick ==
    /\ clicks < MaxClicks
    /\ clicks' = clicks + 1
    /\ statusDiv' = "Activating..."
    /\ fetches' = fetches \cup {clicks + 1}
    /\ UNCHANGED settled

\* src/unnamed/part_000 33-44: the rest of the handler, once the awaits settle
FetchSettles ==
    /\ \E c \in fetches, o \in FetchOutcomes :
        /\ fetches' = fetches \ {c}
        /\ settled' = [click |-> c, outcome |-> o]
        /\ statusDiv' = StatusFor(o)
    /\ UNCHANGED clicks

-----------------------------------------------------------------------------
(* The server                                                              *)

\* no storage call in progress, no nonce sent out, no payment request
\* handled, the admin page not clicked
SideIdle ==
    /\ issued = {}
    /\ inflight = [p \in Requests |-> IdleCall]
    /\ now = 1
    /\ payReq = NoBody
    /\ payResp = NoPayResp
    /\ sessionLog = << >>
    /\ rejected = {}
    /\ statusDiv = ""
    /\ fetches = {}
    /\ clicks = 0
    /\ settled = NoFetch

DomIdle ==
    /\ script = "none"
    /\ onCheckout = FALSE
    /\ present = {}
    /\ buttons = [p \in {} |-> 0]
    /\ timers = {}
    /\ timeouts = 0
    /\ records = {}
    /\ started = FALSE
    /\ listening = FALSE
    /\ observing = FALSE
    /\ inserted = 0
    /\ executions = 0
    /\ marked = FALSE

ServerBoot ==
    /\ tokenFile = NoTokenFile
    /\ configFile = NoConfigFile
    /\ usedCodes = {}
    /\ nextTagId = 1
    /\ req = NoReq
    /\ resp = NoResp
    /\ before = Missing
    /\ writes = {}
    /\ calls = {}
    /\ activated = [s \in Shops |-> Missing]

Boot == rev \in {"server", "legacy"} /\ ServerBoot /\ DomIdle /\ SideIdle

\* the OAuth, activation and merchant-config routes
Init == Boot /\ secret = 1

Next ==
    \/ (AuthCallbackServerRoute /\ UNCHANGED <<domVars, sideVars>>)
    \/ (AuthCallbackLegacyRoute /\ UNCHANGED <<domVars, sideVars>>)
    \/ (ActivateServerRoute /\ UNCHANGED <<domVars, sideVars>>)
    \/ (MerchantConfigRoute /\ UNCHANGED <<domVars, sideVars>>)

Spec == Init /\ [][Next]_vars

\* the webhook routes
InitWebhook == Boot /\ secret \in Secrets \cup {Missing}

NextWebhook ==
    \/ (WebhookServerRoute /\ UNCHANGED <<domVars, sideVars>>)
    \/ (WebhookLegacyRoute /\ UNCHANGED <<domVars, sideVars>>)

SpecWebhook == InitWebhook /\ [][NextWebhook]_vars

\* the older revision: OAuth callback, activation, merchant config and the
\* served script
InitLegacy == Boot /\ rev = "legacy" /\ secret = 1

NextLegacy ==
    \/ (AuthCallbackLegacyRoute /\ UNCHANGED <<domVars, sideVars>>)
    \/ (ActivateLegacyRoute /\ UNCHANGED <<domVars, sideVars>>)
    \/ (MerchantConfigRoute /\ UNCHANGED <<domVars, sideVars>>)
    \/ (CheckoutExtensionLegacyRoute /\ UNCHANGED <<domVars, sideVars>>)

SpecLegacy == InitLegacy /\ [][NextLegacy]_vars

\* storeMerchantConfig called again and again, one call at a time, from a
\* file that is absent or that does not parse
CorruptConfigFile == [state |-> "SyntaxError", configs |-> EmptyConfigs]

FieldValues(f) ==
    IF f = "payment_method_active" THEN {Missing, Active}
    ELSE IF f = "script_tag_id" THEN {Missing} \cup (1..MaxTags)
    ELSE IF f = "customization_id"
    THEN {Missing, PlatformCustomization, FallbackCustomization}
    ELSE Shops

\* the objects a caller can pass as config: some of the fields, each with a
\* value or undefined
ConfigInputs ==
    UNION {{c \in [K -> UNION {FieldValues(f) : f \in Fields}] :
               \A f \in K : c[f] \in FieldValues(f)} : K \in SUBSET Fields}

\* the configs the two activation handlers pass
CallerConfigs ==
    {c \in ConfigInputs :
        \/ DOMAIN c = {"script_tag_id"} /\ c["script_tag_id"] # Missing
        \/ /\ DOMAIN c = {"payment_method_active", "customization_id", "script_tag_id"}
           /\ c["payment_method_active"] = Active
           /\ c["customization_id"] # Missing}

StoreConfigCall ==
    /\ \E s \in Shops, c \in CallerConfigs :
        configFile' = StoreMerchantConfig(configFile, s, c)
    /\ writes' = {"merchant-configs.json"}
    /\ UNCHANGED <<rev, secret, tokenFile, usedCodes, nextTagId, req, resp, before,
                   calls, activated>>

InitConfig ==
    /\ rev \in {"server", "legacy"} /\ secret = 1
    /\ tokenFile = NoTokenFile
    /\ configFile \in {NoConfigFile, CorruptConfigFile}
    /\ usedCodes = {} /\ nextTagId = 1 /\ req = NoReq /\ resp = NoResp
    /\ before = Missing /\ writes = {} /\ calls = {}
    /\ activated = [s \in Shops |-> Missing]
    /\ DomIdle /\ SideIdle

NextConfig == StoreConfigCall /\ UNCHANGED <<domVars, sideVars>>

SpecConfig == InitConfig /\ [][NextConfig]_vars

\* the OAuth flow from /install to /auth/callback, both revisions
InitOAuth == Boot /\ secret = 1

NextOAuth ==
    \/ (InstallRoute /\ UNCHANGED <<domVars, inflight, payVars, adminVars>>)
    \/ (AuthServerRoute /\ UNCHANGED <<domVars, inflight, payVars, adminVars>>)
    \/ (AuthLegacyRoute /\ UNCHANGED <<domVars, inflight, payVars, adminVars>>)
    \/ (AuthCallbackServerWithState /\ UNCHANGED <<domVars, inflight, payVars, adminVars>>)
    \/ (AuthCallbackLegacyWithState /\ UNCHANGED <<domVars, inflight, payVars, adminVars>>)

SpecOAuth == InitOAuth /\ [][NextOAuth]_vars

\* overlapping calls of the storage functions
InitStore == Boot /\ secret = 1

SpecStore == InitStore /\ [][NextStore]_vars

\* webhooks and merchant-config requests at a server where a shop has
\* installed the app and activated the payment method
InitInstalled ==
    /\ rev \in {"server", "legacy"}
    /\ secret = 1
    /\ \E s \in Shops, t \in Tokens :
        /\ tokenFile = StoreShopToken(NoTokenFile, s, t)
        /\ configFile = StoreMerchantConfig(NoConfigFile, s,
                            [f \in {"script_tag_id"} |-> 1])
    /\ usedCodes = {}
    /\ nextTagId = 1
    /\ req = NoReq
    /\ resp = NoResp
    /\ before = Missing
    /\ writes = {}
    /\ calls = {}
    /\ activated = [s \in Shops |-> Missing]
    /\ DomIdle
    /\ SideIdle

NextInstalled ==
    \/ (WebhookServerRoute /\ UNCHANGED <<domVars, sideVars>>)
    \/ (WebhookLegacyRoute /\ UNCHANGED <<domVars, sideVars>>)
    \/ (MerchantConfigRoute /\ UNCHANGED <<domVars, sideVars>>)

SpecInstalled == InitInstalled /\ [][NextInstalled]_vars

\* the payment routes of either revision
InitPayments == Boot /\ secret = 1

NextPayments ==
    \/ (PaymentSessionsRoute /\ UNCHANGED <<serverVars, domVars, issued, inflight, adminVars>>)
    \/ (PaymentConfirmRoute /\ UNCHANGED <<serverVars, domVars, issued, inflight, adminVars>>)
    \/ (PaymentRejectRoute /\ UNCHANGED <<serverVars, domVars, issued, inflight, adminVars>>)
    \/ (Tick /\ UNCHANGED <<serverVars, domVars, issued, inflight, adminVars>>)

SpecPayments == InitPayments /\ [][NextPayments]_vars

\* the admin page, opened with a shop parameter
InitAdmin == Boot /\ secret = 1

NextAdmin ==
    \/ (ActivateClick /\ UNCHANGED <<serverVars, domVars, issued, inflight, payVars>>)
    \/ (FetchSettles /\ UNCHANGED <<serverVars, domVars, issued, inflight, payVars>>)

SpecAdmin == InitAdmin /\ [][NextAdmin]_vars

-----------------------------------------------------------------------------
(* Properties of the server                                                *)

IsWebhook == req.route \in WebhookRoutes(rev)
IsCallback == req.route = "/auth/callback"
Signed == secret # Missing /\ req.hmac = Hmac(secret, req.body)

\* C1: in the revision that defines verifyShopifyWebhook, a webhook request
\* whose X-Shopify-Hmac-Sha256 header is absent or is not the HMAC of the
\* body under the secret is answered 401, never 200.
C1_UnsignedWebhookGets401 ==
    (rev = "legacy" /\ IsWebhook /\ secret # Missing /\ ~Signed)
        => (resp.status = 401 /\ resp.status # 200)

\* C2: the webhook routes of src/server.js answer 200 only to a request
\* whose signature has been confirmed against the shared secret.
C2_OkOnlyWhenSigned ==
    (rev = "server" /\ IsWebhook /\ resp.status = 200) => Signed

\* C3: in the revision that defines verifyShopifyWebhook, a webhook request
\* of type application/json whose header is the HMAC of its raw body under
\* the secret is answered 200.
C3_SignedJsonWebhookGets200 ==
    (rev = "legacy" /\ IsWebhook /\ req.ctype = "application/json"
        /\ IsJson(req.body) /\ Signed)
        => resp.status = 200

\* C4: in src/server.js, after a callback with shop and code whose exchange
\* the platform answered OK with access_token t, getShopAccessToken(shop)
\* returns t, whatever was stored for the shop before, and the response is
\* the redirect to the shop's admin app page.
C4_TokenStoredAndRedirected ==
    (rev = "server" /\ IsCallback /\ req.platform = "ok_token")
        => /\ GetShopAccessToken(tokenFile, req.shop) = req.token
           /\ resp = Redirect(AdminApp(req.shop))

C4_Witness ==
    /\ rev = "server" /\ IsCallback /\ req.platform = "ok_token"
    /\ before \notin {Missing, req.token}
    /\ GetShopAccessToken(tokenFile, req.shop) = req.token
    /\ resp.status = 302

\* C5: in both revisions the callback writes the token store only when the
\* exchange response is OK and carries an access_token; in every other
\* outcome the store is not written and an error status is returned.
C5_StoreWrittenOnlyWithToken ==
    (IsCallback /\ req.platform # "ok_token")
        => (writes = {} /\ resp.status \in {400, 500})

\* C6: with a platform that accepts each code once, a callback carrying a
\* code that was already exchanged stores no token, leaves the token store
\* as it was and returns an error instead of the redirect (both revisions).
C6_CodeExchangedOnce ==
    [][(req'.route = "/auth/callback" /\ req'.code \in usedCodes)
          => /\ tokenFile' = tokenFile
             /\ writes' = {}
             /\ resp'.status \in {400, 500}
             /\ resp'.location = <<>>]_vars

C6_Witness ==
    /\ IsCallback /\ req.code \in usedCodes
    /\ req.platform = "rejected_json"
    /\ before # Missing
    /\ GetShopAccessToken(tokenFile, req.shop) = before
    /\ resp.status \in {400, 500}

\* C7: in src/server.js, GET /merchant-config/:shop returns 404 for a shop
\* for which no activation has responded success, and after one has, the
\* shop's record with the script_tag_id of that activation response.
C7_ConfigFollowsActivation ==
    (rev = "server" /\ req.route = "/merchant-config")
        => IF activated[req.shop] = Missing
           THEN resp.status = 404
           ELSE resp.status = 200 /\ resp.script_tag_id = activated[req.shop]

C7_Witness ==
    /\ rev = "server" /\ req.route = "/merchant-config"
    /\ resp.status = 200 /\ resp.script_tag_id = activated[req.shop]
    /\ activated[req.shop] > 1
    /\ \E s \in Shops : activated[s] = Missing

-----------------------------------------------------------------------------
(* The page: the elements a document may hold                              *)

MaxTimeouts == 2
MaxInserts == 2

Scripts == {"part_001", "checkout-extension", "served", "served-legacy"}

PaymentMethods == "div.payment-methods"
PaymentForm == "form[data-payment-form]"
PaymentDue == "div.payment-due"
AddToCart == "form[action=/cart/add] button[name=add][type=submit]"
CartCheckout == "a.cart__checkout"
\* a .payment-method element inside .payment-methods, but not a child of it
NestedMethod == "div.payment-methods > fieldset > div.payment-method"

Kinds == {PaymentMethods, PaymentForm, PaymentDue, AddToCart, CartCheckout,
          NestedMethod}

\* element.matches(selector), for the elements and selectors of the model
Matches(k, sel) ==
    \/ k = PaymentMethods /\ sel = ".payment-methods"
    \/ k = PaymentForm /\ sel \in {"[data-payment-form]", "form[data-payment-form]"}
    \/ k = PaymentDue /\ sel = ".payment-due"
    \/ k = AddToCart /\ sel \in
          {"button[name=\"add\"][type=\"submit\"]",
           "form[action*=\"/cart/add\"] button[type=\"submit\"]",
           "button[name=\"add\"]",
           "form[action*=\"/cart/add\"] input[type=\"submit\"], button[name=\"add\"]"}
    \/ k = CartCheckout /\ sel \in
          {".cart__checkout",
           "form[action*=\"/checkout\"] [type=\"submit\"], .cart__checkout"}
    \/ k = NestedMethod /\ sel = ".payment-method, [data-credit-card]"

\* document.querySelector(selector): the element found, or "null"
QuerySelector(dom, sel) ==
    LET hits == {k \in dom : Matches(k, sel)}
    IN IF hits = {} THEN "null" ELSE CHOOSE k \in hits : TRUE

\* mutant: the loop without its break, the last selector that finds one wins
FirstMatch_Last(dom, sels) ==
    LET found == {i \in 1..Len(sels) : QuerySelector(dom, sels[i]) # "null"}
    IN IF found = {} THEN "null"
       ELSE QuerySelector(dom, sels[CHOOSE i \in found : \A j \in found : i >= j])

\* for (const selector of selectors) { el = document.querySelector(selector);
\* if (el) break; }, from the i-th selector on
RECURSIVE SelectorLoop(_, _, _)
SelectorLoop(dom, sels, i) ==
    IF i > Len(sels) THEN "null"
    ELSE IF QuerySelector(dom, sels[i]) # "null" THEN QuerySelector(dom, sels[i])
    ELSE SelectorLoop(dom, sels, i + 1)

FirstMatch(dom, sels) == SelectorLoop(dom, sels, 1)

CheckoutSelectors ==
    <<".payment-methods", "[data-step=\"payment_method\"]",
      ".section--payment-method", "[data-payment-form]", ".payment-method-list",
      "form[data-payment-form]", ".payment-due-label", ".payment-due",
      ".step__footer">>

ButtonSelectors ==
    <<"button[name=\"add\"][type=\"submit\"]",
      ".product-form__buttons button[type=\"submit\"]",
      "form[action*=\"/cart/add\"] button[type=\"submit\"]",
      "form[action*=\"/cart/add\"] input[type=\"submit\"]",
      "button[name=\"add\"]", ".product-form__submit", ".btn-product-form",
      "form[action*=\"/checkout\"] [type=\"submit\"]", ".cart__checkout",
      ".cart-footer button">>

\* addToCartBtn || checkoutBtn
LegacyButtonSelectors ==
    <<"form[action*=\"/cart/add\"] input[type=\"submit\"], button[name=\"add\"]",
      "form[action*=\"/checkout\"] [type=\"submit\"], .cart__checkout">>

PaymentSelectors ==
    <<".payment-methods", "[data-step=\"payment_method\"]",
      ".section--payment-method", "[data-payment-form]", ".payment-method-list",
      ".step__sections", ".payment-due", ".payment-options", "#payment-gateway">>

\* the script served by src/extensions/checkout-extension.js
LegacyServedSelectors ==
    <<"[data-step=\"payment_method\"]", ".payment-methods",
      "#checkout_payment_gateway", ".section--payment-method",
      "[data-payment-form]", ".payment-method-list">>

\* where a button can be: inside an element ("in"), or in the container
\* that holds it ("by": its parentNode or closest form)
Places == {"in", "by"} \X Kinds
NoPlace == <<"none", "null">>
NoButtons == [p \in Places |-> 0]

-----------------------------------------------------------------------------
(* addCryptoButton                                                         *)

\* mutant: the duplicate check left out
HasButton_Never(btns) == FALSE

\* document.getElementById("crypto-pay-btn")
HasButton(btns) == \E p \in Places : btns[p] > 0

\* src/unnamed/part_001 and src/extensions/checkout-extension.js: the
\* insertion point, the payment section on a checkout page and the
\* container of the add-to-cart or checkout button elsewhere
InsertionPoint(scr, chk, dom) ==
    LET k == IF chk THEN FirstMatch(dom, CheckoutSelectors)
             ELSE IF scr = "part_001" THEN FirstMatch(dom, ButtonSelectors)
             ELSE FirstMatch(dom, LegacyButtonSelectors)
    IN IF k = "null" THEN NoPlace
       ELSE IF chk THEN <<"in", k>> ELSE <<"by", k>>

\* the script served by src/server.js: findPaymentSection()
FindPaymentSection(dom) ==
    LET k == FirstMatch(dom, PaymentSelectors)
        card == QuerySelector(dom, "[data-credit-card], .credit-card, #credit-card")
    IN IF k # "null" THEN <<"in", k>>
       ELSE IF card # "null" THEN <<"by", card>>
       ELSE NoPlace

\* the script served by src/extensions/checkout-extension.js: paymentSection
FindLegacySection(dom) ==
    LET k == FirstMatch(dom, LegacyServedSelectors)
    IN IF k = "null" THEN NoPlace ELSE <<"in", k>>

\* paymentSection.insertBefore(cryptoOption, firstPaymentMethod) throws when
\* firstPaymentMethod, found by paymentSection.querySelector, is not a child
\* of paymentSection; the catch returns without inserting
InsertThrows(dom, place) ==
    place = <<"in", PaymentMethods>> /\ NestedMethod \in dom

\* the element an invocation of the script's function looks up
FindTarget(scr, chk, dom) ==
    IF scr = "served" THEN FindPaymentSection(dom)
    ELSE IF scr = "served-legacy" THEN FindLegacySection(dom)
    ELSE InsertionPoint(scr, chk, dom)

\* one invocation: the buttons of the document after it
AddCryptoButton(scr, chk, dom, btns) ==
    IF HasButton(btns) THEN btns
    ELSE LET place == FindTarget(scr, chk, dom)
         IN IF place = NoPlace THEN btns
            ELSE IF scr = "served" /\ InsertThrows(dom, place) THEN btns
            ELSE [btns EXCEPT ![place] = @ + 1]

\* mutant: every invocation appends to the document, button or not
Invoke_AlwaysAppends(recs, observed) ==
    LET after == AddCryptoButton(script, onCheckout, present, buttons)
    IN /\ buttons' = after
       /\ inserted' = IF after # buttons THEN inserted + 1 ELSE inserted
       /\ records' = IF observed THEN recs \cup {"crypto"} ELSE recs

\* an invocation as a step: the insertion is a childList mutation, recorded
\* when the observer is already registered
Invoke(recs, observed) ==
    LET after == AddCryptoButton(script, onCheckout, present, buttons)
    IN /\ buttons' = after
       /\ inserted' = IF after # buttons THEN inserted + 1 ELSE inserted
       /\ records' = IF after # buttons /\ observed THEN recs \cup {"crypto"}
                     ELSE recs

-----------------------------------------------------------------------------
(* The script's top-level code, its timers and its observer                *)

\* isCheckoutPage of the served script, evaluated once
IsCheckoutPage(chk, dom) ==
    \/ chk
    \/ QuerySelector(dom, "[data-step=\"payment_method\"]") # "null"
    \/ QuerySelector(dom, ".payment-methods") # "null"
    \/ QuerySelector(dom, ".step__sections") # "null"

\* the delays of the setTimeout(addCryptoButton, ...) retries
RetryTimers(scr) == IF scr = "part_001" THEN {1000, 3000, 5000} ELSE {2000, 5000}

\* src/extensions/checkout-extension.js 106-117: run, observe, two retries
StartLegacyScript ==
    /\ script = "checkout-extension"
    /\ Invoke({}, FALSE)
    /\ observing' = TRUE
    /\ timers' = RetryTimers(script)
    /\ UNCHANGED <<listening, timeouts, marked>>

\* src/unnamed/part_001 142-170: run now or on DOMContentLoaded, observe,
\* three retries
StartStorefrontScript(loading) ==
    /\ script = "part_001"
    /\ IF loading
       THEN listening' = TRUE /\ UNCHANGED <<buttons, inserted, records>>
       ELSE listening' = FALSE /\ Invoke({}, FALSE)
    /\ observing' = TRUE
    /\ timers' = RetryTimers(script)
    /\ UNCHANGED <<timeouts, marked>>

\* mutant: the observer and the retries are set up before the page test
StartServedScript_ObservesFirst(loading) ==
    /\ script = "served"
    /\ marked' = (marked \/ IsCheckoutPage(onCheckout, present))
    /\ listening' = loading
    /\ timeouts' = IF loading THEN timeouts ELSE timeouts + 1
    /\ observing' = TRUE
    /\ timers' = RetryTimers(script)
    /\ UNCHANGED <<buttons, inserted, records>>

\* mutant: no test for the element with id SCRIPT_ID
StartServedScript_NoGuard(loading) ==
    /\ script = "served"
    /\ IF ~IsCheckoutPage(onCheckout, present)
       THEN UNCHANGED <<marked, listening, observing, timers, timeouts>>
       ELSE /\ marked' = TRUE
            /\ listening' = loading
            /\ timeouts' = IF loading THEN timeouts ELSE timeouts + 1
            /\ observing' = TRUE
            /\ timers' = RetryTimers(script)
    /\ UNCHANGED <<buttons, inserted, records>>

\* src/server.js 403-429 and 648-700: leave unless on a checkout page, leave
\* if the element with id SCRIPT_ID is there, else append it; run after
\* 100 ms or on DOMContentLoaded, observe, two retries
StartServedScript(loading) ==
    /\ script = "served"
    /\ IF ~IsCheckoutPage(onCheckout, present) \/ marked
       THEN UNCHANGED <<marked, listening, observing, timers, timeouts>>
       ELSE /\ marked' = TRUE
            /\ listening' = loading
            /\ timeouts' = IF loading THEN timeouts ELSE timeouts + 1
            /\ observing' = TRUE
            /\ timers' = RetryTimers(script)
    /\ UNCHANGED <<buttons, inserted, records>>

\* src/extensions/checkout-extension.js 617-771: leave unless CRYPTO_ENABLED;
\* run, observe, two retries.  The script runs once the server has sent it.
StartServedLegacy ==
    /\ script = "served-legacy"
    /\ resp.enabled # "none"
    /\ IF ~Truthy(resp.enabled)
       THEN UNCHANGED <<buttons, inserted, records, observing, timers>>
       ELSE /\ Invoke({}, FALSE)
            /\ observing' = TRUE
            /\ timers' = RetryTimers(script)
    /\ UNCHANGED <<listening, timeouts, marked>>

ScriptStart ==
    /\ ~started
    /\ started' = TRUE
    /\ \/ StartLegacyScript
       \/ \E loading \in BOOLEAN : StartStorefrontScript(loading)
       \/ \E loading \in BOOLEAN : StartServedScript(loading)
       \/ StartServedLegacy
    /\ executions' = executions + 1
    /\ UNCHANGED <<script, onCheckout, present>>

\* a task runs only when no observer callback is due (callbacks are
\* microtasks: they run as soon as the task that queued them ends)
NoCallbackDue == records = {}

MaxExecutions == 2

\* the served script of src/server.js runs, for the first time or again (the
\* page carries its script tag more than once)
ServedScriptRuns ==
    /\ script = "served" /\ NoCallbackDue
    /\ executions < MaxExecutions
    /\ executions' = executions + 1
    /\ started' = TRUE
    /\ \E loading \in BOOLEAN : StartServedScript(loading)
    /\ UNCHANGED <<script, onCheckout, present>>

DomContentLoaded ==
    /\ listening /\ NoCallbackDue
    /\ listening' = FALSE
    /\ Invoke({}, observing)
    /\ UNCHANGED <<executions, marked, script, onCheckout, present, timers, timeouts, started, observing>>

\* the fixed retries fire in the order of their delays
TimerFires ==
    /\ timers # {} /\ NoCallbackDue
    /\ LET t == CHOOSE x \in timers : \A y \in timers : x <= y
       IN timers' = timers \ {t}
    /\ Invoke({}, observing)
    /\ UNCHANGED <<executions, marked, script, onCheckout, present, timeouts, started, listening, observing>>

\* a setTimeout(addCryptoButton, 100 or 500) scheduled by the script
TimeoutFires ==
    /\ timeouts > 0 /\ NoCallbackDue
    /\ timeouts' = timeouts - 1
    /\ Invoke({}, observing)
    /\ UNCHANGED <<executions, marked, script, onCheckout, present, timers, started, listening, observing>>

\* whether the callback of the script's observer asks for another run, from
\* the records delivered: "payment" an added node that holds .payment-methods
\* or [data-payment-form] or has the class payment-methods, "added" any other
\* added node, "crypto" the script's own insertion, "removed" removed nodes
ShouldRun(scr, recs) ==
    IF scr = "served" THEN "payment" \in recs
    ELSE recs \cap {"payment", "added", "crypto"} # {}

ObserverCallback ==
    /\ observing /\ records # {}
    /\ IF script = "checkout-extension"
       THEN Invoke({}, TRUE) /\ UNCHANGED timeouts
       ELSE IF script = "served-legacy"
       THEN /\ IF ShouldRun(script, records) THEN Invoke({}, TRUE)
               ELSE records' = {} /\ UNCHANGED <<buttons, inserted>>
            /\ UNCHANGED timeouts
       ELSE /\ timeouts' = IF ShouldRun(script, records) THEN timeouts + 1 ELSE timeouts
            /\ records' = {}
            /\ UNCHANGED <<buttons, inserted>>
    /\ UNCHANGED <<executions, marked, script, onCheckout, present, timers, started, listening, observing>>

-----------------------------------------------------------------------------
(* The page's own changes to the document                                  *)

\* the page's code runs as tasks of its own, after the script has started
\* and not between a script task and the callback it queued
PageMayAct == started /\ "crypto" \notin records /\ timeouts < MaxTimeouts

\* the record of an added element, itself or inside a wrapper node
AddedRecord(k, wrapped) ==
    IF \/ wrapped /\ (Matches(k, ".payment-methods") \/ Matches(k, "[data-payment-form]"))
       \/ ~wrapped /\ k = PaymentMethods
    THEN "payment" ELSE "added"

Observed(rec) == IF observing THEN records \cup {rec} ELSE records

PageAdds ==
    /\ PageMayAct
    /\ \E k \in Kinds \ present, wrapped \in BOOLEAN :
        /\ k = NestedMethod => PaymentMethods \in present
        /\ present' = present \cup {k}
        /\ records' = Observed(AddedRecord(k, wrapped))
    /\ UNCHANGED <<executions, marked, script, onCheckout, buttons, timers, timeouts, started,
                   listening, observing, inserted>>

\* removing an element removes what is inside it
PageRemoves ==
    /\ PageMayAct
    /\ \E k \in present :
        /\ buttons[<<"in", k>>] > 0 => inserted < MaxInserts
        /\ present' = present \ (IF k = PaymentMethods THEN {k, NestedMethod} ELSE {k})
        /\ buttons' = [buttons EXCEPT ![<<"in", k>>] = 0]
        /\ records' = Observed("removed")
    /\ UNCHANGED <<executions, marked, script, onCheckout, timers, timeouts, started, listening,
                   observing, inserted>>

\* a theme re-render that drops the button alone
PageRemovesButton ==
    /\ PageMayAct /\ inserted < MaxInserts
    /\ \E p \in Places :
        /\ buttons[p] > 0
        /\ buttons' = [buttons EXCEPT ![p] = @ - 1]
        /\ records' = Observed("removed")
    /\ UNCHANGED <<executions, marked, script, onCheckout, present, timers, timeouts, started,
                   listening, observing, inserted>>

\* merchant-configs.json as the activations of either revision can have
\* left it when a page asks for the script
ConfigFiles ==
    {NoConfigFile}
    \cup {StoreMerchantConfig(NoConfigFile, s, [f \in {"script_tag_id"} |-> 1]) :
            s \in Shops}
    \cup {StoreMerchantConfig(NoConfigFile, s,
               [f \in {"payment_method_active", "customization_id"} |->
                   IF f = "payment_method_active" THEN Active ELSE 1]) :
            s \in Shops}

InitDom ==
    /\ script \in Scripts
    /\ rev = IF script = "served-legacy" THEN "legacy" ELSE "server"
    /\ secret = 1
    /\ tokenFile = NoTokenFile
    /\ configFile \in IF script = "served-legacy" THEN ConfigFiles ELSE {NoConfigFile}
    /\ usedCodes = {}
    /\ nextTagId = 1
    /\ req = NoReq
    /\ resp = NoResp
    /\ before = Missing
    /\ writes = {}
    /\ calls = {}
    /\ activated = [s \in Shops |-> Missing]
    /\ SideIdle
    /\ onCheckout \in BOOLEAN
    /\ present \in {d \in SUBSET Kinds : NestedMethod \in d => PaymentMethods \in d}
    /\ buttons = NoButtons
    /\ timers = {}
    /\ timeouts = 0
    /\ records = {}
    /\ started = FALSE
    /\ listening = FALSE
    /\ observing = FALSE
    /\ inserted = 0
    /\ executions = 0
    /\ marked = FALSE

\* the page asks the server for its script before it runs it
ScriptRequested == script = "served-legacy" /\ ~started /\ req = NoReq

NextDom ==
    \/ (ScriptRequested /\ CheckoutExtensionLegacyRoute /\ UNCHANGED <<domVars, sideVars>>)
    \/ (ScriptStart /\ UNCHANGED <<serverVars, sideVars>>)
    \/ (DomContentLoaded /\ UNCHANGED <<serverVars, sideVars>>)
    \/ (TimerFires /\ UNCHANGED <<serverVars, sideVars>>)
    \/ (TimeoutFires /\ UNCHANGED <<serverVars, sideVars>>)
    \/ (ObserverCallback /\ UNCHANGED <<serverVars, sideVars>>)
    \/ (PageAdds /\ UNCHANGED <<serverVars, sideVars>>)
    \/ (PageRemoves /\ UNCHANGED <<serverVars, sideVars>>)
    \/ (PageRemovesButton /\ UNCHANGED <<serverVars, sideVars>>)

SpecDom == InitDom /\ [][NextDom]_vars

\* a page in which the served script of src/server.js runs more than once
InitReload == InitDom /\ script = "served"

NextReload ==
    \/ (ServedScriptRuns /\ UNCHANGED <<serverVars, sideVars>>)
    \/ (DomContentLoaded /\ UNCHANGED <<serverVars, sideVars>>)
    \/ (TimerFires /\ UNCHANGED <<serverVars, sideVars>>)
    \/ (TimeoutFires /\ UNCHANGED <<serverVars, sideVars>>)
    \/ (ObserverCallback /\ UNCHANGED <<serverVars, sideVars>>)
    \/ (PageAdds /\ UNCHANGED <<serverVars, sideVars>>)
    \/ (PageRemoves /\ UNCHANGED <<serverVars, sideVars>>)
    \/ (PageRemovesButton /\ UNCHANGED <<serverVars, sideVars>>)

SpecReload == InitReload /\ [][NextReload]_vars

-----------------------------------------------------------------------------
(* Properties of the client scripts                                        *)

ButtonPlaces == {p \in Places : buttons[p] > 0}

\* nothing of the script is left to run until the page changes the document
Quiescent ==
    started /\ timers = {} /\ timeouts = 0 /\ records = {} /\ ~listening

\* C8: whatever the invocations of addCryptoButton (start, DOMContentLoaded,
\* observer callbacks, timers) and the page's changes in between, the document
\* holds at most one #crypto-pay-btn inserted by the script.
C8_AtMostOneButton ==
    started => /\ Cardinality(ButtonPlaces) <= 1
               /\ \A p \in Places : buttons[p] <= 1

C8_Witness ==
    /\ script = "served" /\ Quiescent
    /\ inserted >= 2
    /\ Cardinality(ButtonPlaces) = 1

\* C9: in the two standalone scripts, a button that is absent while an
\* insertion target is present is inserted again, at any time after load:
\* the script is never left with nothing to run, a target and no button.
C9_ReinsertedWheneverAbsent ==
    (script \in {"part_001", "checkout-extension"} /\ Quiescent
        /\ InsertionPoint(script, onCheckout, present) # NoPlace)
        => ButtonPlaces # {}

\* C10: in the script served by src/server.js, on a checkout page, once an
\* element that findPaymentSection accepts is in the document the crypto
\* option gets inserted into it: the script is never left with nothing to
\* run, a payment section and no option.  Stated for the section found by
\* the selector .payment-due.
C10_InsertedWhenSectionAppears ==
    (script = "served" /\ observing /\ Quiescent
        /\ FindPaymentSection(present) = <<"in", PaymentDue>>)
        => buttons[<<"in", PaymentDue>>] > 0

\* C11: the script the older server sends has CRYPTO_ENABLED true exactly
\* when the Referer names a myshopify.com shop whose merchant config has
\* payment_method_active true; otherwise the script, once run, has inserted
\* nothing and registered neither observer nor timer.
C11_EnabledOnlyForActiveShop ==
    (script = "served-legacy" /\ resp.enabled # "none") =>
        /\ Truthy(resp.enabled) <=>
              \E s \in Shops :
                  /\ req.referer = <<"myshopify", s>>
                  /\ configFile.state = "ok"
                  /\ configFile.configs[s].present
                  /\ configFile.configs[s].fields["payment_method_active"] = Active
        /\ ~Truthy(resp.enabled) =>
              /\ ButtonPlaces = {} /\ inserted = 0
              /\ ~observing /\ timers = {} /\ timeouts = 0 /\ ~listening

C11_Witness ==
    /\ script = "served-legacy" /\ started
    /\ resp.enabled = "undefined"
    /\ PaymentMethods \in present
    /\ req.referer[1] = "myshopify"

-----------------------------------------------------------------------------
(* Properties of the activation routes                                     *)

IsActivation(r) == r.route = "/activate-payment-method"

\* C14: in the older revision an activation answers success: true and
\* records payment_method_active true only when the platform registered
\* the script tag and the payment customization for the shop.
C14_SuccessOnlyWhenRegistered ==
    (rev = "legacy" /\ IsActivation(req)
        /\ (resp.success \/ "merchant-configs.json" \in writes))
        => (req.platform = "created" /\ req.custom = "created")

\* C12: in src/server.js an activation for a shop with no stored access
\* token is answered 401, sends nothing to the platform and leaves
\* merchant-configs.json as it was.
C12_NoTokenNoActivation ==
    [][(/\ rev = "server" /\ IsActivation(req') /\ req'.shop \in Shops
        /\ GetShopAccessToken(tokenFile, req'.shop) = Missing)
       => (resp'.status = 401 /\ calls' = {} /\ writes' = {}
           /\ configFile' = configFile)]_vars

C12_Witness ==
    /\ rev = "server" /\ IsActivation(req) /\ resp.status = 401
    /\ GetShopAccessToken(tokenFile, req.shop) = Missing
    /\ \E s \in Shops : GetMerchantConfig(configFile, s).present

\* C13: in src/server.js an activation whose script tag creation fails
\* (no response, a body that is not JSON, GraphQL errors, userErrors) is
\* answered 500 and leaves merchant-configs.json as it was.
C13_FailedCreationStoresNothing ==
    [][(/\ rev = "server" /\ IsActivation(req')
        /\ req'.platform \in GraphqlOutcomes \ {"created"})
       => (resp'.status = 500 /\ writes' = {} /\ configFile' = configFile)]_vars

C13_Witness ==
    /\ rev = "server" /\ IsActivation(req) /\ resp.status = 500
    /\ req.platform = "user_errors"
    /\ GetMerchantConfig(configFile, req.shop).present

-----------------------------------------------------------------------------
(* Properties of the storage functions                                     *)

Stored(p) ==
    IF inflight[p].store = "tokens"
    THEN GetShopAccessToken(tokenFile, inflight[p].shop) # Missing
    ELSE GetMerchantConfig(configFile, inflight[p].shop).present

\* C15: when two calls that write the same store for different shops have
\* both completed, however they overlapped, the store holds the records of
\* both shops.
C15_NoCompletedWriteLost ==
    \A p, q \in Requests :
        (/\ inflight[p].pc = "done" /\ inflight[q].pc = "done"
         /\ inflight[p].store = inflight[q].store
         /\ inflight[p].shop # inflight[q].shop)
        => (Stored(p) /\ Stored(q))

-----------------------------------------------------------------------------
(* Properties of the selector search                                       *)

\* the selector list an invocation goes through
SelectorsOf(scr, chk) ==
    IF scr = "served" THEN PaymentSelectors
    ELSE IF scr = "served-legacy" THEN LegacyServedSelectors
    ELSE IF chk THEN CheckoutSelectors
    ELSE IF scr = "part_001" THEN ButtonSelectors
    ELSE LegacyButtonSelectors

\* C17: the search of each script finds the element of the earliest
\* selector of its list that matches anything in the document; when no
\* selector matches (and, in the script served by src/server.js, there is
\* no credit-card element) the invocation inserts nothing.
C17_EarliestSelectorWins ==
    LET sels == SelectorsOf(script, onCheckout)
        hits == {i \in 1..Len(sels) : \E k \in present : Matches(k, sels[i])}
        place == FindTarget(script, onCheckout, present)
        card == QuerySelector(present, "[data-credit-card], .credit-card, #credit-card")
    IN script \in Scripts =>
        /\ hits # {} =>
              /\ place # NoPlace
              /\ Matches(place[2], sels[CHOOSE i \in hits : \A j \in hits : i <= j])
        /\ (hits = {} /\ (script = "served" => card = "null")) =>
              /\ place = NoPlace
              /\ AddCryptoButton(script, onCheckout, present, buttons) = buttons

C17_Witness ==
    /\ script = "part_001" /\ onCheckout /\ started
    /\ {PaymentForm, PaymentDue} \subseteq present /\ PaymentMethods \notin present
    /\ buttons[<<"in", PaymentForm>>] = 1

-----------------------------------------------------------------------------
(* Termination of the scripts                                              *)

\* what the script has left to do: its start, its retry timers and its
\* listener, a callback that is due, timeouts callbacks have scheduled, and
\* the one insertion it can still make
Pending ==
    (IF started THEN 0 ELSE 40)
    + 4 * Cardinality(timers) + (IF listening THEN 4 ELSE 0)
    + (IF records # {} THEN 2 ELSE 0) + timeouts
    + (IF HasButton(buttons) THEN 0 ELSE 3)

\* C18: the observer does not feed on the script's own changes: every step
\* of a script (a step of the page that neither adds nor removes an element
\* nor takes a button away) lowers Pending, which is never negative, so
\* once the page stops changing the document the script runs finitely many
\* times more and then leaves the document alone, target or no target.
C18_ScriptStepsRunOut ==
    [][(/\ domVars' # domVars /\ present' = present
        /\ \A p \in DOMAIN buttons : buttons'[p] >= buttons[p])
       => (Pending' < Pending /\ Pending' >= 0)]_vars

C18_Witness ==
    /\ script = "checkout-extension" /\ observing /\ Quiescent
    /\ inserted = 1 /\ ButtonPlaces # {}

-----------------------------------------------------------------------------
(* Properties of the OAuth entry routes                                    *)

\* C19: in both revisions /install, /auth and /auth/callback answer 400,
\* without a redirect and without a request to the platform, when shop is
\* missing (for /auth/callback also when code is missing).
C19_MissingShopGets400 ==
    (/\ req.route \in {"/install", "/auth", "/auth/callback"}
     /\ (req.shop = Missing \/ (IsCallback /\ req.code = Missing)))
    => (resp.status = 400 /\ resp.location = <<>> /\ calls = {})

\* C20: in the older revision a callback goes on to the token exchange only
\* when its state is a nonce /auth sent out for that shop; with a missing or
\* unknown state nothing is exchanged and nothing stored.
C20_ExchangeOnlyWithIssuedState ==
    (rev = "legacy" /\ IsCallback /\ (calls # {} \/ writes # {}))
    => <<req.shop, req.state>> \in issued

-----------------------------------------------------------------------------
(* Properties of the payment routes                                        *)

\* C21: /payments/confirm answers success: true only for a session id that a
\* /payments/sessions response has issued and that /payments/reject has not
\* reported rejected.
C21_ConfirmOnlyIssuedUnrejected ==
    (payReq.route = "/payments/confirm" /\ payResp.success)
        => /\ \E k \in 1..Len(sessionLog) : sessionLog[k] = payReq.session_id
           /\ payReq.session_id \notin rejected

\* C22: the session ids issued by any two successful /payments/sessions
\* requests differ, also when both are handled in the same millisecond.
C22_SessionIdsDiffer ==
    \A j, k \in 1..Len(sessionLog) : j # k => sessionLog[j] # sessionLog[k]

\* C23: in src/server.js /payments/sessions answers 400 with code
\* missing_required_fields exactly when the body lacks gid, amount or
\* currency; a body that carries all three (amount 0 included) gets 200, a
\* redirect_url that ends in the new session id, and its amount and currency
\* back.
C23_SessionsFieldCheck ==
    (rev = "server" /\ payReq.route = "/payments/sessions")
        => LET absent == \/ payReq.gid = "undefined"
                         \/ payReq.amount = Undefined
                         \/ payReq.currency = "undefined"
           IN /\ absent <=> (/\ payResp.status = 400
                             /\ payResp.code = "missing_required_fields")
              /\ ~absent => /\ payResp.status = 200
                            /\ Len(sessionLog) > 0
                            /\ payResp.session_id = sessionLog[Len(sessionLog)]
                            /\ payResp.redirect = payResp.session_id
                            /\ payResp.amount = payReq.amount
                            /\ payResp.currency = payReq.currency

-----------------------------------------------------------------------------
(* Properties of the webhook routes at a shop that has installed           *)

-----------------------------------------------------------------------------
(* Properties of the served script's page test and SCRIPT_ID guard         *)

\* the script has left nothing in the page and nothing to run
Untouched ==
    /\ ~marked /\ ~observing /\ ~listening
    /\ timers = {} /\ timeouts = 0
    /\ buttons = NoButtons /\ inserted = 0

\* C25: when the served script of src/server.js starts on a page that is not
\* a checkout page, it inserts no element and registers no observer or
\* timer, and no later change of the document brings a crypto option.
C25_NothingOffCheckout ==
    [][script = "served"
        => /\ (~started /\ started' /\ ~IsCheckoutPage(onCheckout, present))
                => Untouched'
           /\ (started /\ Untouched) => Untouched']_vars

C25_Witness ==
    /\ script = "served" /\ started /\ Untouched
    /\ ~onCheckout
    /\ {PaymentMethods, PaymentForm} \subseteq present

\* C26: when the served script runs in a checkout document, its first
\* execution appends the element with id crypto-pay-button-script and
\* registers the observer and the retry timers; an execution that finds the
\* element changes nothing in the page and registers nothing.
C26_LaterExecutionsDoNothing ==
    [][(script = "served" /\ executions' > executions)
        => /\ (executions = 0 /\ IsCheckoutPage(onCheckout, present))
                => (marked' /\ observing' /\ timers' = RetryTimers(script))
           /\ marked => UNCHANGED <<marked, observing, listening, timers,
                                    timeouts, buttons, inserted, records,
                                    present>>]_vars

C26_Witness ==
    /\ script = "served" /\ marked
    /\ executions = MaxExecutions
    /\ timers = {5000} /\ timeouts = 0 /\ ~listening
    /\ inserted > 0

-----------------------------------------------------------------------------
(* Properties of the admin page                                            *)

\* C27: a click on Activate makes the status area show 'Activating...';
\* when its fetch settles the area shows the success message exactly when
\* the response body has success true and a failure or error message
\* otherwise; with no fetch left unsettled it does not show 'Activating...'.
C27_StatusFollowsFetch ==
    [][/\ clicks' > clicks => statusDiv' = "Activating..."
       /\ (clicks' = clicks /\ fetches' # fetches)
            => /\ statusDiv' \in {"activated", "Failed", "Error"}
               /\ statusDiv' = "activated" <=> settled'.outcome = "success: true"
       /\ fetches' = {} => statusDiv' # "Activating..."]_vars

C27_Witness ==
    /\ clicks = 2 /\ fetches = {}
    /\ settled.click = 1 /\ settled.outcome = "null"
    /\ statusDiv = "Error"

====
